---- MODULE Spec2Model ----
(***************************************************************************)
(* Coordinate mapping between two aligned genomes (interhost.py):          *)
(* CoordMapper2Seqs, the pairwise index built from two aligned sequences,  *)
(* and CoordMapper, which owns one index per chromosome pair.              *)
(*                                                                         *)
(* Spec       : one CoordMapper2Seqs, built from an input pair and queried *)
(* SpecMapper : one CoordMapper, built from two genomes and queried        *)
(***************************************************************************)
EXTENDS Integers, Sequences, FiniteSets, TLC

\* ------------------------------------------------------------------ bounds
\* Longest input sequence (columns, gaps included) given to CoordMapper2Seqs.
MaxLen == 6
\* Most chromosomes in one genome fasta given to CoordMapper.
MaxChroms == 3
NumThreads == 2

\* ------------------------------------------------------- python values
Gap == "-"
\* the fill value zip_longest pads the shorter sequence with
NoneFill == "None"
Alphabet == {"A", Gap}

NoneVal == [kind |-> "None"]
IntVal(n) == [kind |-> "int", v |-> n]
ListVal(a, b) == [kind |-> "list", l |-> a, r |-> b]
Raised(name) == [kind |-> "raise", exc |-> name]

NoExc == "none"
AssertSameLength == "AssertionError: sequences must be same length"
AssertGapToGap == "AssertionError: gap aligned to gap"
AssertAdjacentGaps == "AssertionError: gap in one sequence adjacent to gap in other"
AssertNoAligned == "AssertionError: no aligned bases"
UnboundLocal == "UnboundLocalError: finalPos0"
IsAssertion(e) ==
    e \in {AssertSameLength, AssertGapToGap, AssertAdjacentGaps, AssertNoAligned}

Max(a, b) == IF a >= b THEN a ELSE b
Min(a, b) == IF a <= b THEN a ELSE b
Last(s) == s[Len(s)]

\* the worked example of the documentation: "AC-GT" aligned to "ACTGT"
ExampleA0 == << "A", "C", "-", "G", "T" >>
ExampleB0 == << "A", "C", "T", "G", "T" >>

\* ------------------------------------------------- CoordMapper2Seqs.__init__
\* the locals of __init__ before the loop
ScanStart ==
    [ mapArrays |-> << <<>>, <<>> >>,
      baseCount0 |-> 0, baseCount1 |-> 0,
      beforeStart |-> TRUE, gapSinceLast |-> FALSE,
      prevRealBase0 |-> TRUE, prevRealBase1 |-> TRUE,
      finalBound |-> FALSE, finalPos0 |-> 0, finalPos1 |-> 0,
      exc |-> NoExc ]

\* b0 != '-'
RealBase(b) == b # Gap

\* ColumnCheck without the length assertion: a padded column is read on
ColumnCheckNoLength(st, b0, b1) ==
    IF ~(RealBase(b0) \/ RealBase(b1)) THEN AssertGapToGap
    ELSE IF ~( (RealBase(b0) \/ st.prevRealBase1)
               /\ (RealBase(b1) \/ st.prevRealBase0) ) THEN AssertAdjacentGaps
    ELSE NoExc

\* ColumnCheck without the assertion on a gap aligned to a gap
ColumnCheckNoGapToGap(st, b0, b1) ==
    IF ~(b0 # NoneFill /\ b1 # NoneFill) THEN AssertSameLength
    ELSE IF ~( (RealBase(b0) \/ st.prevRealBase1)
               /\ (RealBase(b1) \/ st.prevRealBase0) ) THEN AssertAdjacentGaps
    ELSE NoExc

\* ColumnCheck that looks for a gap of the other sequence before a gap of seq0
\* only
ColumnCheckOneWay(st, b0, b1) ==
    IF ~(b0 # NoneFill /\ b1 # NoneFill) THEN AssertSameLength
    ELSE IF ~(RealBase(b0) \/ RealBase(b1)) THEN AssertGapToGap
    ELSE IF ~(RealBase(b0) \/ st.prevRealBase1) THEN AssertAdjacentGaps
    ELSE NoExc

\* ColumnCheck that accepts columns of two real bases only
ColumnCheckStrict(st, b0, b1) ==
    IF ~(b0 # NoneFill /\ b1 # NoneFill) THEN AssertSameLength
    ELSE IF ~(RealBase(b0) /\ RealBase(b1)) THEN AssertGapToGap
    ELSE NoExc

\* the checks at the head of the loop body, in the order the code makes them
ColumnCheck(st, b0, b1) ==
    IF ~(b0 # NoneFill /\ b1 # NoneFill) THEN AssertSameLength
    ELSE IF ~(RealBase(b0) \/ RealBase(b1)) THEN AssertGapToGap
    ELSE IF ~( (RealBase(b0) \/ st.prevRealBase1)
               /\ (RealBase(b1) \/ st.prevRealBase0) ) THEN AssertAdjacentGaps
    ELSE NoExc

\* ColumnUpdate that leaves gapSinceLast set after recording a pair
ColumnUpdateKeepFlag(st, b0, b1) ==
    LET realBase0 == RealBase(b0)
        realBase1 == RealBase(b1)
        baseCount0 == st.baseCount0 + (IF realBase0 THEN 1 ELSE 0)
        baseCount1 == st.baseCount1 + (IF realBase1 THEN 1 ELSE 0)
        counted == [st EXCEPT !.prevRealBase0 = realBase0,
                              !.prevRealBase1 = realBase1,
                              !.baseCount0 = baseCount0,
                              !.baseCount1 = baseCount1]
    IN  IF realBase0 /\ realBase1
        THEN LET appended ==
                   IF st.beforeStart \/ st.gapSinceLast
                   THEN [counted EXCEPT
                           !.mapArrays = << Append(st.mapArrays[1], baseCount0),
                                            Append(st.mapArrays[2], baseCount1) >>,
                           !.beforeStart = FALSE]
                   ELSE counted
             IN  [appended EXCEPT !.finalBound = TRUE,
                                  !.finalPos0 = baseCount0,
                                  !.finalPos1 = baseCount1]
        ELSE [counted EXCEPT !.gapSinceLast = TRUE]

\* ColumnUpdate that records the first pair only and never one behind a gap
ColumnUpdateFirstOnly(st, b0, b1) ==
    LET realBase0 == RealBase(b0)
        realBase1 == RealBase(b1)
        baseCount0 == st.baseCount0 + (IF realBase0 THEN 1 ELSE 0)
        baseCount1 == st.baseCount1 + (IF realBase1 THEN 1 ELSE 0)
        counted == [st EXCEPT !.prevRealBase0 = realBase0,
                              !.prevRealBase1 = realBase1,
                              !.baseCount0 = baseCount0,
                              !.baseCount1 = baseCount1]
    IN  IF realBase0 /\ realBase1
        THEN LET appended ==
                   IF st.beforeStart
                   THEN [counted EXCEPT
                           !.mapArrays = << Append(st.mapArrays[1], baseCount0),
                                            Append(st.mapArrays[2], baseCount1) >>,
                           !.beforeStart = FALSE]
                   ELSE counted
             IN  [appended EXCEPT !.gapSinceLast = FALSE,
                                  !.finalBound = TRUE,
                                  !.finalPos0 = baseCount0,
                                  !.finalPos1 = baseCount1]
        ELSE [counted EXCEPT !.gapSinceLast = TRUE]

\* the rest of the loop body, for a column that passed the checks
ColumnUpdate(st, b0, b1) ==
    LET realBase0 == RealBase(b0)
        realBase1 == RealBase(b1)
        baseCount0 == st.baseCount0 + (IF realBase0 THEN 1 ELSE 0)
        baseCount1 == st.baseCount1 + (IF realBase1 THEN 1 ELSE 0)
        counted == [st EXCEPT !.prevRealBase0 = realBase0,
                              !.prevRealBase1 = realBase1,
                              !.baseCount0 = baseCount0,
                              !.baseCount1 = baseCount1]
    IN  IF realBase0 /\ realBase1
        THEN LET appended ==
                   IF st.beforeStart \/ st.gapSinceLast
                   THEN [counted EXCEPT
                           !.mapArrays = << Append(st.mapArrays[1], baseCount0),
                                            Append(st.mapArrays[2], baseCount1) >>,
                           !.gapSinceLast = FALSE,
                           !.beforeStart = FALSE]
                   ELSE counted
             IN  [appended EXCEPT !.finalBound = TRUE,
                                  !.finalPos0 = baseCount0,
                                  !.finalPos1 = baseCount1]
        ELSE [counted EXCEPT !.gapSinceLast = TRUE]

\* one iteration of the loop over zip_longest(seq0, seq1)
ScanColumn(st, b0, b1) ==
    LET e == ColumnCheck(st, b0, b1)
    IN  IF e # NoExc THEN [st EXCEPT !.exc = e] ELSE ColumnUpdate(st, b0, b1)

\* element i of zip_longest(s0, s1): the shorter sequence is padded with None
Zipped(s, i) == IF i <= Len(s) THEN s[i] ELSE NoneFill

RECURSIVE Scan(_, _, _, _)
Scan(st, s0, s1, i) ==
    IF st.exc # NoExc \/ i > Max(Len(s0), Len(s1)) THEN st
    ELSE Scan(ScanColumn(st, Zipped(s0, i), Zipped(s1, i)), s0, s1, i + 1)

\* ScanFinish without the assertion that a pair was recorded
ScanFinishNoAssert(st) ==
    IF st.exc # NoExc THEN st
    ELSE IF ~st.finalBound THEN [st EXCEPT !.exc = UnboundLocal]
    ELSE IF Len(st.mapArrays[1]) = 0 \/ Last(st.mapArrays[1]) # st.finalPos0
         THEN [st EXCEPT !.mapArrays = << Append(st.mapArrays[1], st.finalPos0),
                                          Append(st.mapArrays[2], st.finalPos1) >>]
         ELSE st

\* ScanFinish that appends the last pair without comparing it to the last entry
ScanFinishAlwaysAppend(st) ==
    IF st.exc # NoExc THEN st
    ELSE IF ~(Len(st.mapArrays[1]) # 0) THEN [st EXCEPT !.exc = AssertNoAligned]
    ELSE [st EXCEPT !.mapArrays = << Append(st.mapArrays[1], st.finalPos0),
                                     Append(st.mapArrays[2], st.finalPos1) >>]

\* the statements after the loop
ScanFinish(st) ==
    IF st.exc # NoExc THEN st
    ELSE IF ~(Len(st.mapArrays[1]) # 0) THEN [st EXCEPT !.exc = AssertNoAligned]
    ELSE IF ~st.finalBound THEN [st EXCEPT !.exc = UnboundLocal]
    ELSE IF Last(st.mapArrays[1]) # st.finalPos0
         THEN [st EXCEPT !.mapArrays = << Append(st.mapArrays[1], st.finalPos0),
                                          Append(st.mapArrays[2], st.finalPos1) >>]
         ELSE st

\* CoordMapper2Seqs(seq0, seq1): the locals when the constructor returns or raises
__init__(s0, s1) == ScanFinish(Scan(ScanStart, s0, s1, 1))

\* ------------------------------------------------- CoordMapper2Seqs.__call__
\* bisect.bisect(a, x), the bisect_right loop of the standard library
RECURSIVE BisectLoop(_, _, _, _)
BisectLoop(a, x, lo, hi) ==
    IF lo < hi
    THEN LET mid == (lo + hi) \div 2
         IN  \* a is 1-based here: python's a[mid] is a[mid + 1]
             IF x < a[mid + 1] THEN BisectLoop(a, x, lo, mid)
                               ELSE BisectLoop(a, x, mid + 1, hi)
    ELSE lo

\* bisect as bisect_left: the insertion point before the entries equal to x
bisect_left(a, x) == Cardinality({ i \in 1..Len(a) : a[i] < x })

bisect(a, x) == BisectLoop(a, x, 0, Len(a))

\* a[i] of python: i counts from 0, a negative i counts from the end
InRange(a, i) == (0 - Len(a)) <= i /\ i < Len(a)
Item(a, i) == IF i >= 0 THEN a[i + 1] ELSE a[Len(a) + i + 1]

\* Interpolate whose interval ends at the next entry instead of one before it
InterpolateOpenInterval(fromArray, toArray, fromPos) ==
    LET insertInd == bisect(fromArray, fromPos)
        prevPlusOffset == toArray[insertInd] + (fromPos - fromArray[insertInd])
    IN  IF fromPos = fromArray[insertInd + 1] - 1
           /\ prevPlusOffset < toArray[insertInd + 1] - 1
        THEN ListVal(prevPlusOffset, toArray[insertInd + 1])
        ELSE IntVal(Min(prevPlusOffset, toArray[insertInd + 1] - 1))

\* Interpolate that never answers with an interval
InterpolateNoInterval(fromArray, toArray, fromPos) ==
    LET insertInd == bisect(fromArray, fromPos)
        prevPlusOffset == toArray[insertInd] + (fromPos - fromArray[insertInd])
    IN  IntVal(Min(prevPlusOffset, toArray[insertInd + 1] - 1))

\* Interpolate without the clamp to the entry before the next one
InterpolateNoClamp(fromArray, toArray, fromPos) ==
    LET insertInd == bisect(fromArray, fromPos)
        prevPlusOffset == toArray[insertInd] + (fromPos - fromArray[insertInd])
    IN  IF fromPos = fromArray[insertInd + 1] - 1
           /\ prevPlusOffset < toArray[insertInd + 1] - 1
        THEN ListVal(prevPlusOffset, toArray[insertInd + 1] - 1)
        ELSE IntVal(prevPlusOffset)

\* Interpolate that answers with the entry before the position, without the
\* offset from it
InterpolateNoOffset(fromArray, toArray, fromPos) ==
    LET insertInd == bisect(fromArray, fromPos)
    IN  IntVal(toArray[insertInd])

\* the else branch: the binary search between two table entries
Interpolate(fromArray, toArray, fromPos) ==
    LET insertInd == bisect(fromArray, fromPos)
    IN  IF ~(InRange(fromArray, insertInd - 1) /\ InRange(fromArray, insertInd))
        THEN Raised("IndexError")
        ELSE LET prevFromPos == Item(fromArray, insertInd - 1)
                 nextFromPos == Item(fromArray, insertInd)
                 prevToPos == Item(toArray, insertInd - 1)
                 nextToPos == Item(toArray, insertInd)
                 prevPlusOffset == prevToPos + (fromPos - prevFromPos)
             IN  IF ~(prevFromPos <= fromPos /\ fromPos < nextFromPos)
                 THEN Raised("AssertionError")
                 ELSE IF fromPos = nextFromPos - 1 /\ prevPlusOffset < nextToPos - 1
                      THEN ListVal(prevPlusOffset, nextToPos - 1)
                      ELSE IntVal(Min(prevPlusOffset, nextToPos - 1))

\* __call__ that tests only the lower end of the table
__call__NoUpperCheck(arrays, fromPos, fromWhich) ==
    LET fromArray == arrays[fromWhich + 1]
        toArray == arrays[(1 - fromWhich) + 1]
    IN  IF fromPos < fromArray[1] THEN NoneVal
        ELSE IF fromPos = Last(fromArray) THEN IntVal(Last(toArray))
        ELSE Interpolate(fromArray, toArray, fromPos)

\* __call__ without the branch for the last entry
__call__NoLastCheck(arrays, fromPos, fromWhich) ==
    LET fromArray == arrays[fromWhich + 1]
        toArray == arrays[(1 - fromWhich) + 1]
    IN  IF fromPos < fromArray[1] \/ fromPos > Last(fromArray) THEN NoneVal
        ELSE Interpolate(fromArray, toArray, fromPos)

\* __call__ that maps from the first sequence whatever fromWhich is
__call__IgnoresWhich(arrays, fromPos, fromWhich) ==
    LET fromArray == arrays[1]
        toArray == arrays[2]
    IN  IF fromPos < fromArray[1] \/ fromPos > Last(fromArray) THEN NoneVal
        ELSE IF fromPos = Last(fromArray) THEN IntVal(Last(toArray))
        ELSE Interpolate(fromArray, toArray, fromPos)

\* mapper(fromPos, fromWhich) for an integer fromPos; arrays is self.mapArrays
__call__(arrays, fromPos, fromWhich) ==
    LET fromArray == arrays[fromWhich + 1]
        toArray == arrays[(1 - fromWhich) + 1]
    IN  IF fromPos < fromArray[1] \/ fromPos > Last(fromArray) THEN NoneVal
        ELSE IF fromPos = Last(fromArray) THEN IntVal(Last(toArray))
        ELSE Interpolate(fromArray, toArray, fromPos)

\* a float argument, held as the number of its halves: FloatVal(3) is 1.5
FloatVal(h) == [kind |-> "float", halves |-> h]
NaN == [kind |-> "nan"]
Inf == [kind |-> "inf"]
\* the one-character strings int() reads as a number
DigitValue ==
    [d \in {"0", "1", "2", "3", "4", "5", "6", "7", "8", "9"} |->
        CASE d = "0" -> 0 [] d = "1" -> 1 [] d = "2" -> 2 [] d = "3" -> 3
          [] d = "4" -> 4 [] d = "5" -> 5 [] d = "6" -> 6 [] d = "7" -> 7
          [] d = "8" -> 8 [] d = "9" -> 9]

\* int(x): an integer is itself, a finite float is truncated towards zero, a
\* string (of one character here) is parsed, a float that is not finite and a
\* string that is no numeral raise, an object that is no number raises
int(x) ==
    CASE x.kind = "int" -> IntVal(x.v)
      [] x.kind = "float" -> IntVal(IF x.halves >= 0 THEN x.halves \div 2
                                    ELSE 0 - ((0 - x.halves) \div 2))
      [] x.kind = "nan" -> Raised("ValueError")
      [] x.kind = "inf" -> Raised("OverflowError")
      [] x.kind = "str" -> IF x.s \in DOMAIN DigitValue THEN IntVal(DigitValue[x.s])
                           ELSE Raised("ValueError")
      [] OTHER -> Raised("TypeError")

\* x != n for an integer n: numbers compare by value, anything else differs
NotEqual(x, n) ==
    CASE x.kind = "int" -> x.v # n
      [] x.kind = "float" -> x.halves # 2 * n
      [] OTHER -> TRUE

\* the integer test at the head of __call__, then the rest of it; a float that
\* passed the test computes with the integer it equals
CallValue(arrays, x, fromWhich) ==
    LET asInt == int(x)
    IN  IF asInt.kind = "raise" THEN asInt
        ELSE IF NotEqual(x, asInt.v) THEN Raised("TypeError")
        ELSE __call__(arrays, asInt.v, fromWhich)

\* ------------------------------------------------------------ CoordMapper
\* dict[key] = value
DictSet(d, key, value) ==
    [k \in (DOMAIN d) \cup {key} |-> IF k = key THEN value ELSE d[k]]
EmptyDict == [k \in {} |-> NoneVal]

\* transposeChromosomeFiles with zip in place of zip_longest: the records the
\* longer genome has beyond the shorter are dropped
transposeShortest(fa, fb) ==
    [kind |-> "files", files |-> [i \in 1..Min(Len(fa), Len(fb)) |-> << fa[i], fb[i] >>]]

\* transposeChromosomeFiles([fastaA, fastaB]): one file per chromosome holding
\* the two corresponding records, or the exception it raises
transposeChromosomeFiles(fa, fb) ==
    IF Len(fa) # Len(fb)
    THEN Raised("Exception: input files must all have the same number of sequences")
    ELSE [kind |-> "files", files |-> [i \in 1..Len(fa) |-> << fa[i], fb[i] >>]]

\* the aligned pairs the aligner may write for a chromosome: well-formed
\* alignments and malformed ones (a gap column next to a gap column of the
\* other sequence, a gap aligned to a gap, unequal lengths)
AlignerOutputs ==
    { << ExampleA0, ExampleB0 >>,
      << << "A", "G", "C" >>, << "A", "-", "C" >> >>,
      << << "A", "-" >>, << "-", "A" >> >>,
      << << "A", "C" >>, << "A" >> >> }

\* aligner.execute(alignInFileName, alignOutFileName): the records of the output
\* file keep the ids and the order of the input file
AlignedFile(inFile, aligned) ==
    << [id |-> inFile[1], seq |-> aligned[1]], [id |-> inFile[2], seq |-> aligned[2]] >>

\* LoadFile that stores the chromosome's own name in the entry of self.BtoA
LoadFileSelfPartner(cm, seqs, a_idx, b_idx) ==
    LET a == seqs[a_idx + 1]
        b == seqs[b_idx + 1]
        built == __init__(a.seq, b.seq)
        mapper == Len(cm.mappers) + 1
    IN  IF built.exc # NoExc THEN [cm EXCEPT !.exc = built.exc]
        ELSE [cm EXCEPT
                !.mappers = Append(cm.mappers, built.mapArrays),
                !.AtoB = DictSet(cm.AtoB, a.id, [chrom |-> b.id, mapper |-> mapper]),
                !.BtoA = DictSet(cm.BtoA, b.id, [chrom |-> b.id, mapper |-> mapper])]

\* LoadFile that passes over an aligned pair the pairwise index rejects
LoadFileSkipsInvalid(cm, seqs, a_idx, b_idx) ==
    LET a == seqs[a_idx + 1]
        b == seqs[b_idx + 1]
        built == __init__(a.seq, b.seq)
        mapper == Len(cm.mappers) + 1
    IN  IF built.exc # NoExc THEN cm
        ELSE [cm EXCEPT
                !.mappers = Append(cm.mappers, built.mapArrays),
                !.AtoB = DictSet(cm.AtoB, a.id, [chrom |-> b.id, mapper |-> mapper]),
                !.BtoA = DictSet(cm.BtoA, b.id, [chrom |-> a.id, mapper |-> mapper])]

\* the body of the loop of _load_alignments for one aligned file;
\* cm = [AtoB, BtoA, mappers, exc], mappers being the objects created so far
LoadFile(cm, seqs, a_idx, b_idx) ==
    IF ~(a_idx < Len(seqs) /\ b_idx < Len(seqs))
    THEN [cm EXCEPT !.exc = "AssertionError"]
    ELSE LET a == seqs[a_idx + 1]
             b == seqs[b_idx + 1]
             built == __init__(a.seq, b.seq)
             mapper == Len(cm.mappers) + 1
         IN  IF built.exc # NoExc THEN [cm EXCEPT !.exc = built.exc]
             ELSE [cm EXCEPT
                     !.mappers = Append(cm.mappers, built.mapArrays),
                     !.AtoB = DictSet(cm.AtoB, a.id, [chrom |-> b.id, mapper |-> mapper]),
                     !.BtoA = DictSet(cm.BtoA, b.id, [chrom |-> a.id, mapper |-> mapper])]

RECURSIVE LoadLoop(_, _, _, _, _)
LoadLoop(cm, aligned_files, i, a_idx, b_idx) ==
    IF cm.exc # NoExc \/ i > Len(aligned_files) THEN cm
    ELSE LoadLoop(LoadFile(cm, aligned_files[i], a_idx, b_idx),
                  aligned_files, i + 1, a_idx, b_idx)

\* LoadCheck that counts the keys of self.AtoB only
LoadCheckOnlyA(cm, aligned_files) ==
    IF cm.exc # NoExc THEN cm
    ELSE IF ~(Cardinality(DOMAIN cm.AtoB) = Len(aligned_files))
         THEN [cm EXCEPT !.exc = "AssertionError: duplicate sequence names"]
         ELSE cm

\* the assertion after the loop of _load_alignments
LoadCheck(cm, aligned_files) ==
    IF cm.exc # NoExc THEN cm
    ELSE IF ~( Cardinality(DOMAIN cm.AtoB) = Cardinality(DOMAIN cm.BtoA)
               /\ Cardinality(DOMAIN cm.BtoA) = Len(aligned_files) )
         THEN [cm EXCEPT !.exc = "AssertionError: duplicate sequence names"]
         ELSE cm

\* self._load_alignments(aligned_files) on the empty maps of __init__
_load_alignments(aligned_files) ==
    LoadCheck(LoadLoop([AtoB |-> EmptyDict, BtoA |-> EmptyDict,
                        mappers |-> <<>>, exc |-> NoExc],
                       aligned_files, 1, 0, 1),
              aligned_files)

StrVal(s) == [kind |-> "str", s |-> s]
TupleVal(c, p) == [kind |-> "tuple", chrom |-> c, pos |-> p]

\* SideSelect with the two ends exchanged
SideSelectSwapped(toPos, side) ==
    IF toPos.kind = "list" /\ side # 0
    THEN (IF side < 0 THEN IntVal(toPos.r) ELSE IntVal(toPos.l))
    ELSE toPos

\* lines 60-61 and 76-77: the side selection on the raw result of the index
SideSelect(toPos, side) ==
    IF toPos.kind = "list" /\ side # 0
    THEN (IF side < 0 THEN IntVal(toPos.l) ELSE IntVal(toPos.r))
    ELSE toPos

\* DictGet that removes the entry it returns, as dict.pop does
DictGetPop(d, key) ==
    IF key \notin DOMAIN d THEN [exc |-> "KeyError", dict |-> d]
    ELSE [exc |-> NoExc, val |-> d[key],
          dict |-> [k \in DOMAIN d \ {key} |-> d[k]]]

\* DictGet that stores and returns an entry for a key the dict does not have,
\* as a defaultdict does
DictGetDefault(d, key) ==
    IF key \notin DOMAIN d
    THEN [exc |-> NoExc, val |-> [chrom |-> key, mapper |-> 1],
          dict |-> DictSet(d, key, [chrom |-> key, mapper |-> 1])]
    ELSE [exc |-> NoExc, val |-> d[key], dict |-> d]

\* self.AtoB[fromChrom] (lines 56, 72): the entry or KeyError, and the dict
\* after the lookup
DictGet(d, key) ==
    IF key \notin DOMAIN d THEN [exc |-> "KeyError", dict |-> d]
    ELSE [exc |-> NoExc, val |-> d[key], dict |-> d]

\* MapQuery without the early return for fromPos == None
MapQueryNoNameOnly(table, heap, fromWhich, fromChrom, fromPos, side) ==
    IF fromChrom \notin DOMAIN table
    THEN [ret |-> Raised("KeyError"), lookups |-> <<>>, table |-> table, heap |-> heap]
    ELSE LET toPos == CallValue(heap[table[fromChrom].mapper], fromPos, fromWhich)
             called == << [mapper |-> table[fromChrom].mapper, pos |-> fromPos,
                           which |-> fromWhich] >>
         IN  IF toPos.kind = "raise"
             THEN [ret |-> toPos, lookups |-> called, table |-> table, heap |-> heap]
             ELSE [ret |-> TupleVal(table[fromChrom].chrom, SideSelect(toPos, side)),
                   lookups |-> called, table |-> table, heap |-> heap]

\* MapQuery whose call of the pairwise index leaves the two arrays of the index
\* exchanged
MapQuerySwapsArrays(table, heap, fromWhich, fromChrom, fromPos, side) ==
    IF fromChrom \notin DOMAIN table \/ fromPos = NoneVal
    THEN [ret |-> IF fromChrom \notin DOMAIN table THEN Raised("KeyError")
                  ELSE StrVal(table[fromChrom].chrom),
          lookups |-> <<>>, table |-> table, heap |-> heap]
    ELSE LET mapper == table[fromChrom].mapper
             toPos == CallValue(heap[mapper], fromPos, fromWhich)
         IN  [ret |-> IF toPos.kind = "raise" THEN toPos
                      ELSE TupleVal(table[fromChrom].chrom, SideSelect(toPos, side)),
              lookups |-> << [mapper |-> mapper, pos |-> fromPos, which |-> fromWhich] >>,
              table |-> table,
              heap |-> [heap EXCEPT ![mapper] = << heap[mapper][2], heap[mapper][1] >>]]

\* mapAtoB (fromWhich = 0, table = self.AtoB) and mapBtoA (fromWhich = 1,
\* table = self.BtoA): the value returned or the exception raised, the calls
\* made to pairwise indexes, and the dict and the indexes after the query
MapQuery(table, heap, fromWhich, fromChrom, fromPos, side) ==
    LET got == DictGet(table, fromChrom)
    IN  IF got.exc # NoExc
        THEN [ret |-> Raised(got.exc), lookups |-> <<>>, table |-> got.dict, heap |-> heap]
        ELSE LET toChrom == got.val.chrom
                 mapper == got.val.mapper
             IN  IF fromPos = NoneVal
                 THEN [ret |-> StrVal(toChrom), lookups |-> <<>>,
                       table |-> got.dict, heap |-> heap]
                 ELSE LET toPos == CallValue(heap[mapper], fromPos, fromWhich)
                          called == << [mapper |-> mapper, pos |-> fromPos,
                                        which |-> fromWhich] >>
                      IN  IF toPos.kind = "raise"
                          THEN [ret |-> toPos, lookups |-> called,
                                table |-> got.dict, heap |-> heap]
                          ELSE [ret |-> TupleVal(toChrom, SideSelect(toPos, side)),
                                lookups |-> called, table |-> got.dict, heap |-> heap]

\* ---------------------------------------------------------------- state
VARIABLES
    seq0, seq1,     \* the arguments of CoordMapper2Seqs(seq0, seq1)
    pc,             \* "new", "built" (constructor returned), "failed" (it raised)
    mapArrays,      \* self.mapArrays of the built object
    exc,            \* the exception the constructor raised, or NoExc
    query,          \* the arguments of the last __call__, or NoneVal
    result,         \* what the last __call__ returned
    fastaA, fastaB, \* the record ids of the two genome fastas, in file order
    cmPc,           \* "new", "align", "load", "ready", "failed"
    perChr,         \* per_chr_fastas of _align
    alignOut,       \* the aligned files written so far, in call order
    AtoB, BtoA,     \* self.AtoB, self.BtoA of the constructed CoordMapper
    mappers,        \* the CoordMapper2Seqs objects the maps refer to
    cmExc,          \* the exception CoordMapper(...) raised, or NoExc
    cmQuery,        \* the arguments of the last mapAtoB / mapBtoA, or NoneVal
    cmRet,          \* what it returned or raised
    lookups,        \* the calls it made to pairwise indexes
    threads         \* the queries running at the same time on one CoordMapper

pwVars == << seq0, seq1, pc, mapArrays, exc, query, result >>
cmVars == << fastaA, fastaB, cmPc, perChr, alignOut, AtoB, BtoA, mappers,
             cmExc, cmQuery, cmRet, lookups >>
thVars == << threads >>
vars == << pwVars, cmVars, thVars >>

SeqsUpTo(n) == UNION { [1..k -> Alphabet] : k \in 0..n }
Inputs == (SeqsUpTo(MaxLen) \X SeqsUpTo(MaxLen)) \cup { << ExampleA0, ExampleB0 >> }
Positions == 0..(MaxLen + 1)
\* arguments that are no integer object: 1.5, 2.0, -0.5, nan, inf, None, "3",
\* "x" and a list
OtherArgs ==
    { FloatVal(3), FloatVal(4), FloatVal(0 - 1), NaN, Inf, NoneVal,
      StrVal("3"), StrVal("x"), ListVal(1, 2) }

\* no CoordMapper2Seqs under construction
Idle2Seqs ==
    /\ seq0 = <<>> /\ seq1 = <<>>
    /\ pc = "idle"
    /\ mapArrays = << <<>>, <<>> >>
    /\ exc = NoExc
    /\ query = NoneVal
    /\ result = NoneVal

\* no CoordMapper under construction
IdleMapper ==
    /\ fastaA = <<>> /\ fastaB = <<>>
    /\ cmPc = "idle"
    /\ perChr = <<>>
    /\ alignOut = <<>>
    /\ AtoB = EmptyDict /\ BtoA = EmptyDict
    /\ mappers = <<>>
    /\ cmExc = NoExc
    /\ cmQuery = NoneVal
    /\ cmRet = NoneVal
    /\ lookups = <<>>

\* no query runs beside the caller's own
NoThreads == threads = <<>>

Init ==
    /\ NoThreads
    /\ \E in \in Inputs : seq0 = in[1] /\ seq1 = in[2]
    /\ pc = "new"
    /\ mapArrays = << <<>>, <<>> >>
    /\ exc = NoExc
    /\ query = NoneVal
    /\ result = NoneVal
    /\ IdleMapper

\* mapper = CoordMapper2Seqs(seq0, seq1)
New ==
    /\ pc = "new"
    /\ LET st == __init__(seq0, seq1)
       IN  /\ pc' = IF st.exc = NoExc THEN "built" ELSE "failed"
           /\ mapArrays' = IF st.exc = NoExc THEN st.mapArrays ELSE mapArrays
           /\ exc' = st.exc
    /\ UNCHANGED << seq0, seq1, query, result, cmVars, thVars >>

\* mapper(fromPos, fromWhich)
DoCall(fromPos, fromWhich) ==
    /\ pc = "built"
    /\ query' = [pos |-> fromPos, which |-> fromWhich]
    /\ result' = CallValue(mapArrays, IntVal(fromPos), fromWhich)
    /\ UNCHANGED << seq0, seq1, pc, mapArrays, exc, cmVars, thVars >>

\* mapper(x, fromWhich) for an argument that is no integer object
CallOther(x, fromWhich) ==
    /\ pc = "built"
    /\ query' = [arg |-> x, which |-> fromWhich]
    /\ result' = CallValue(mapArrays, x, fromWhich)
    /\ UNCHANGED << seq0, seq1, pc, mapArrays, exc, cmVars, thVars >>

Next ==
    \/ New
    \/ \E p \in Positions, w \in {0, 1} : DoCall(p, w)
    \/ \E x \in OtherArgs, w \in {0, 1} : CallOther(x, w)

Spec == Init /\ [][Next]_vars

\* ------------------------------------------------- CoordMapper, step by step
ChromNames == {"chr1", "chr2"}
Genomes == UNION { [1..k -> ChromNames] : k \in 0..MaxChroms }
\* the arguments of the queries: a name no genome has is asked for too
QueryNames == ChromNames \cup {"chrX"}
Sides == {0 - 2, 0, 1}
PosArgs == {NoneVal, FloatVal(3)} \cup { IntVal(p) : p \in 0..(Len(ExampleB0) + 1) }

InitMapper ==
    /\ NoThreads
    /\ fastaA \in Genomes /\ fastaB \in Genomes
    /\ cmPc = "new"
    /\ perChr = <<>>
    /\ alignOut = <<>>
    /\ AtoB = EmptyDict /\ BtoA = EmptyDict
    /\ mappers = <<>>
    /\ cmExc = NoExc
    /\ cmQuery = NoneVal
    /\ cmRet = NoneVal
    /\ lookups = <<>>
    /\ Idle2Seqs

\* CoordMapper.__init__ up to the first aligner call: transpose, reject no input
Transpose ==
    /\ cmPc = "new"
    /\ LET t == transposeChromosomeFiles(fastaA, fastaB)
       IN  IF t.kind = "raise"
           THEN cmPc' = "failed" /\ cmExc' = t.exc /\ perChr' = perChr
           ELSE IF Len(t.files) = 0
           THEN cmPc' = "failed" /\ cmExc' = "Exception: no input sequences"
                /\ perChr' = perChr
           ELSE cmPc' = "align" /\ cmExc' = cmExc /\ perChr' = t.files
    /\ UNCHANGED << fastaA, fastaB, alignOut, AtoB, BtoA, mappers,
                    cmQuery, cmRet, lookups, pwVars, thVars >>

\* one iteration of the align loop: aligner.execute on the next chromosome
\* writes an aligned file
AlignNext(aligned) ==
    /\ cmPc = "align"
    /\ alignOut' = Append(alignOut, AlignedFile(perChr[Len(alignOut) + 1], aligned))
    /\ cmPc' = IF Len(alignOut) + 1 = Len(perChr) THEN "load" ELSE "align"
    /\ UNCHANGED << fastaA, fastaB, perChr, AtoB, BtoA, mappers, cmExc,
                    cmQuery, cmRet, lookups, pwVars, thVars >>

\* AlignFails that keeps the loop going after the aligner raised
AlignFailsGoesOn ==
    /\ cmPc = "align"
    /\ cmExc # "AlignerError"
    /\ cmPc' = "align"
    /\ cmExc' = "AlignerError"
    /\ UNCHANGED << fastaA, fastaB, perChr, alignOut, AtoB, BtoA, mappers,
                    cmQuery, cmRet, lookups, pwVars, thVars >>

\* aligner.execute raises: the exception leaves __init__
AlignFails ==
    /\ cmPc = "align"
    /\ cmPc' = "failed"
    /\ cmExc' = "AlignerError"
    /\ UNCHANGED << fastaA, fastaB, perChr, alignOut, AtoB, BtoA, mappers,
                    cmQuery, cmRet, lookups, pwVars, thVars >>

\* self._load_alignments(alignOutFileNames); the maps become visible to the
\* caller only when __init__ returns
Load ==
    /\ cmPc = "load"
    /\ LET cm == _load_alignments(alignOut)
       IN  IF cm.exc # NoExc
           THEN /\ cmPc' = "failed" /\ cmExc' = cm.exc
                /\ UNCHANGED << AtoB, BtoA, mappers >>
           ELSE /\ cmPc' = "ready" /\ cmExc' = cmExc
                /\ AtoB' = cm.AtoB /\ BtoA' = cm.BtoA /\ mappers' = cm.mappers
    /\ UNCHANGED << fastaA, fastaB, perChr, alignOut, cmQuery, cmRet, lookups, pwVars, thVars >>

\* cm.mapAtoB(fromChrom, fromPos, side)
mapAtoB(fromChrom, fromPos, side) ==
    /\ cmPc = "ready"
    /\ LET r == MapQuery(AtoB, mappers, 0, fromChrom, fromPos, side)
       IN  /\ cmRet' = r.ret /\ lookups' = r.lookups
           /\ AtoB' = r.table /\ mappers' = r.heap
    /\ cmQuery' = [dir |-> "AtoB", chrom |-> fromChrom, pos |-> fromPos, side |-> side]
    /\ UNCHANGED << fastaA, fastaB, cmPc, perChr, alignOut, BtoA, cmExc, pwVars, thVars >>

\* cm.mapBtoA(fromChrom, fromPos, side)
mapBtoA(fromChrom, fromPos, side) ==
    /\ cmPc = "ready"
    /\ LET r == MapQuery(BtoA, mappers, 1, fromChrom, fromPos, side)
       IN  /\ cmRet' = r.ret /\ lookups' = r.lookups
           /\ BtoA' = r.table /\ mappers' = r.heap
    /\ cmQuery' = [dir |-> "BtoA", chrom |-> fromChrom, pos |-> fromPos, side |-> side]
    /\ UNCHANGED << fastaA, fastaB, cmPc, perChr, alignOut, AtoB, cmExc, pwVars, thVars >>

NextMapper ==
    \/ Transpose
    \/ \E aligned \in AlignerOutputs : AlignNext(aligned)
    \/ AlignFails
    \/ Load
    \/ \E c \in QueryNames, p \in PosArgs, s \in Sides : mapAtoB(c, p, s)
    \/ \E c \in QueryNames, p \in PosArgs, s \in Sides : mapBtoA(c, p, s)

SpecMapper == InitMapper /\ [][NextMapper]_vars

\* ------------------------------- queries of several threads on one CoordMapper
ThreadIds == 1..NumThreads
\* the queries a thread may make: by name only, with a position that maps to
\* an interval of the example, for a name no genome has
ThreadQueries ==
    { [dir |-> d, chrom |-> a[1], pos |-> a[2], side |-> 1] :
        d \in {"AtoB", "BtoA"},
        a \in { << "chr1", NoneVal >>, << "chr1", IntVal(2) >>, << "chrX", IntVal(2) >> } }
IdleThread ==
    [pc |-> "idle", q |-> NoneVal, entry |-> NoneVal, toPos |-> NoneVal, ret |-> NoneVal]

\* a CoordMapper whose construction returned, and no query yet
InitThreads ==
    /\ \E fa \in Genomes, fb \in Genomes :
          /\ transposeChromosomeFiles(fa, fb).kind = "files" /\ Len(fa) > 0
          /\ \E outs \in [1..Len(fa) -> AlignerOutputs] :
                LET files == [i \in 1..Len(fa) |->
                                AlignedFile(transposeChromosomeFiles(fa, fb).files[i], outs[i])]
                    cm == _load_alignments(files)
                IN  /\ cm.exc = NoExc
                    /\ fastaA = fa /\ fastaB = fb
                    /\ perChr = transposeChromosomeFiles(fa, fb).files
                    /\ alignOut = files
                    /\ AtoB = cm.AtoB /\ BtoA = cm.BtoA /\ mappers = cm.mappers
    /\ cmPc = "ready"
    /\ cmExc = NoExc
    /\ cmQuery = NoneVal
    /\ cmRet = NoneVal
    /\ lookups = <<>>
    /\ Idle2Seqs
    /\ threads = [t \in ThreadIds |-> IdleThread]

\* thread t calls mapAtoB or mapBtoA with the arguments q
Begin(t, q) ==
    /\ threads[t].pc = "idle"
    /\ threads' = [threads EXCEPT ![t] = [IdleThread EXCEPT !.pc = "lookup", !.q = q]]
    /\ UNCHANGED << pwVars, cmVars >>

\* lines 56, 72: toChrom, mapper = self.AtoB[fromChrom]
Lookup(t) ==
    /\ threads[t].pc = "lookup"
    /\ LET q == threads[t].q
           got == DictGet(IF q.dir = "AtoB" THEN AtoB ELSE BtoA, q.chrom)
       IN  /\ AtoB' = IF q.dir = "AtoB" THEN got.dict ELSE AtoB
           /\ BtoA' = IF q.dir = "AtoB" THEN BtoA ELSE got.dict
           /\ threads' = [threads EXCEPT ![t] =
                            IF got.exc # NoExc
                            THEN [@ EXCEPT !.pc = "done", !.ret = Raised(got.exc)]
                            ELSE [@ EXCEPT !.pc = "call", !.entry = got.val]]
    /\ UNCHANGED << fastaA, fastaB, cmPc, perChr, alignOut, mappers, cmExc,
                    cmQuery, cmRet, lookups, pwVars >>

\* lines 57-59, 73-75: the early return for fromPos == None, else
\* toPos = mapper(fromPos, fromWhich), which reads self.mapArrays of the index
Call(t) ==
    /\ threads[t].pc = "call"
    /\ LET th == threads[t]
           toPos == CallValue(mappers[th.entry.mapper], th.q.pos,
                              IF th.q.dir = "AtoB" THEN 0 ELSE 1)
       IN  threads' = [threads EXCEPT ![t] =
                         IF th.q.pos = NoneVal
                         THEN [th EXCEPT !.pc = "done", !.ret = StrVal(th.entry.chrom)]
                         ELSE IF toPos.kind = "raise"
                         THEN [th EXCEPT !.pc = "done", !.ret = toPos]
                         ELSE [th EXCEPT !.pc = "select", !.toPos = toPos]]
    /\ UNCHANGED << pwVars, cmVars >>

\* lines 60-62, 76-78: the side selection and the return
Select(t) ==
    /\ threads[t].pc = "select"
    /\ LET th == threads[t]
       IN  threads' = [threads EXCEPT ![t] =
                         [th EXCEPT !.pc = "done",
                                    !.ret = TupleVal(th.entry.chrom,
                                                     SideSelect(th.toPos, th.q.side))]]
    /\ UNCHANGED << pwVars, cmVars >>

NextThreads ==
    \/ \E t \in ThreadIds, q \in ThreadQueries : Begin(t, q)
    \/ \E t \in ThreadIds : Lookup(t)
    \/ \E t \in ThreadIds : Call(t)
    \/ \E t \in ThreadIds : Select(t)

SpecThreads == InitThreads /\ [][NextThreads]_vars

\* ------------------------------------------ vocabulary of the properties
\* coordinate of column c in sequence s: the real bases in columns 1..c
Coord(s, c) == Cardinality({ i \in 1..c : s[i] # Gap })
\* column c holds a real base in both input sequences
BothReal(c) == seq0[c] # Gap /\ seq1[c] # Gap
BothRealCols == { c \in 1..Len(seq0) : BothReal(c) }
SetMax(S) == CHOOSE x \in S : \A y \in S : y <= x
SetMin(S) == CHOOSE x \in S : \A y \in S : x <= y
FirstPairCol == SetMin(BothRealCols)
LastPairCol == SetMax(BothRealCols)
\* the source and the target sequence of a query in direction w
Src(w) == IF w = 0 THEN seq0 ELSE seq1
Tgt(w) == IF w = 0 THEN seq1 ELSE seq0
\* the column of base p of sequence s
ColOf(s, p) == CHOOSE c \in 1..Len(s) : s[c] # Gap /\ Coord(s, c) = p
HasBase(s, p) == \E c \in 1..Len(s) : s[c] # Gap /\ Coord(s, c) = p
\* the last column of the run of gaps of s that starts in column c
RunEnd(s, c) == SetMax({ e \in c..Len(s) : \A i \in c..e : s[i] = Gap })
\* an integer position was asked for
Asked == pc = "built" /\ query # NoneVal /\ "pos" \in DOMAIN query
FromArray == mapArrays[query.which + 1]
ToArray == mapArrays[(1 - query.which) + 1]

\* C1: a query below the first or above the last entry of the source-side
\* coordinate array returns None, in either direction.
C1_OutOfRangeIsNone ==
    (Asked /\ (query.pos < FromArray[1] \/ query.pos > Last(FromArray)))
        => result = NoneVal

\* a real base of the source that lies past the last entry was asked for
C1_Witness ==
    /\ Asked /\ query.which = 1
    /\ HasBase(seq1, query.pos) /\ query.pos > Last(FromArray)
    /\ result = NoneVal

BaseBeforeGap(c) ==
    /\ c \in 1..(Len(seq0) - 1)
    /\ Src(query.which)[c] # Gap /\ Src(query.which)[c + 1] = Gap
    /\ query.pos = Coord(Src(query.which), c)
\* the interval of the target aligned to the base in column c and the gap run
SpanOf(c) ==
    ListVal(Coord(Tgt(query.which), c),
            Coord(Tgt(query.which), RunEnd(Src(query.which), c + 1)))

BaseOverGap(c) ==
    /\ Src(query.which)[c] # Gap /\ Tgt(query.which)[c] = Gap
    /\ query.pos = Coord(Src(query.which), c)
    /\ Coord(Src(query.which), FirstPairCol) <= query.pos
    /\ query.pos <= Coord(Src(query.which), LastPairCol)

\* C4: a source base between the first and the last anchor whose column holds a
\* gap in the target maps to one integer, the coordinate of the closest
\* upstream real base of the target.
C4_GapMapsUpstream ==
    Asked => \A c \in 1..Len(seq0) : BaseOverGap(c) =>
        result = IntVal(Coord(Tgt(query.which), c))

\* the last base over a gap run of the target, two or more columns long, was
\* asked for
C4_Witness ==
    /\ Asked
    /\ \E c \in 2..Len(seq0) :
          /\ BaseOverGap(c)
          /\ Tgt(query.which)[c - 1] = Gap
          /\ Tgt(query.which)[c + 1] # Gap
          /\ result = IntVal(Coord(Tgt(query.which), c))

\* mapping coordinate p in direction w and the result back in the other one
RoundTrip(p, w) == CallValue(mapArrays, __call__(mapArrays, p, w), 1 - w)
Anchors == 1..Len(mapArrays[1])
\* the column of anchor k is followed by a column with a gap
GapFollows(k) ==
    LET c == ColOf(seq0, mapArrays[1][k])
    IN  c < Len(seq0) /\ ~BothReal(c + 1)

\* C5 as stated: at every anchor (a, b), mapping a to the other sequence and
\* back returns a, and mapping b to the other sequence and back returns b.
C5_AsStated ==
    pc = "built" => \A k \in Anchors :
        /\ RoundTrip(mapArrays[1][k], 0) = IntVal(mapArrays[1][k])
        /\ RoundTrip(mapArrays[2][k], 1) = IntVal(mapArrays[2][k])

\* C5 as amended: the round trip returns the anchor in both directions exactly
\* at the anchors that are the last one or are followed by a column of two real
\* bases; at an anchor directly before an inner gap run one of the two round
\* trips passes through an interval and does not return the coordinate.
C5_RoundTripAwayFromGaps ==
    pc = "built" => \A k \in Anchors :
        ( /\ RoundTrip(mapArrays[1][k], 0) = IntVal(mapArrays[1][k])
          /\ RoundTrip(mapArrays[2][k], 1) = IntVal(mapArrays[2][k]) )
        <=> (k = Len(mapArrays[1]) \/ ~GapFollows(k))

\* an alignment with an anchor behind a gap run that round-trips and an anchor
\* before a gap run that does not
C5_Witness ==
    /\ pc = "built"
    /\ \E k \in Anchors : k > 1 /\ k < Len(mapArrays[1]) /\ ~GapFollows(k)
          /\ RoundTrip(mapArrays[1][k], 0) = IntVal(mapArrays[1][k])
    /\ \E k \in Anchors : k < Len(mapArrays[1]) /\ GapFollows(k)
          /\ RoundTrip(mapArrays[1][k], 0) = Raised("TypeError")

IsExample == seq0 = ExampleA0 /\ seq1 = ExampleB0
ExampleAnswers ==
    [p \in Positions |->
        CASE p = 1 -> IntVal(1)
          [] p = 2 -> ListVal(2, 3)
          [] p = 3 -> IntVal(4)
          [] p = 4 -> IntVal(5)
          [] OTHER -> NoneVal]

\* C6: "AC-GT" against "ACTGT" builds the arrays [1,3,4] and [1,4,5], and from
\* the first to the second sequence 1 maps to 1, 2 to [2,3], 4 to 5, 0 and 5 to
\* None.
C6_WorkedExample ==
    (IsExample /\ pc # "new") =>
        /\ pc = "built"
        /\ mapArrays = << << 1, 3, 4 >>, << 1, 4, 5 >> >>
        /\ (Asked /\ query.which = 0 /\ query.pos \in {0, 1, 2, 4, 5})
              => result = ExampleAnswers[query.pos]

\* position 2 of the example was asked for
C6_Witness ==
    /\ IsExample /\ Asked
    /\ query.which = 0 /\ query.pos = 2 /\ result = ListVal(2, 3)

\* C10: construction fails with an assertion error whenever the two input
\* sequences differ in length.
C10_UnequalLengthsRejected ==
    (pc # "new" /\ Len(seq0) # Len(seq1)) => (pc = "failed" /\ IsAssertion(exc))

\* the second sequence is the shorter one, and the columns before its end
\* are a well-formed alignment with aligned pairs
C10_Witness ==
    /\ pc = "failed" /\ exc = AssertSameLength
    /\ Len(seq1) < Len(seq0) /\ Len(seq1) >= 2
    /\ seq0[1] # Gap /\ seq1[1] # Gap

\* ---------------------------------- vocabulary of the CoordMapper properties
Range(f) == { f[i] : i \in DOMAIN f }
Answered == cmPc = "ready" /\ cmQuery # NoneVal
\* the genome a query reads its chromosome name from, and the other genome
FromGenome == IF cmQuery.dir = "AtoB" THEN fastaA ELSE fastaB
ToGenome == IF cmQuery.dir = "AtoB" THEN fastaB ELSE fastaA
Known == cmQuery.chrom \in Range(FromGenome)
\* the chromosome at the same place of the other genome
Partner == ToGenome[CHOOSE i \in DOMAIN FromGenome : FromGenome[i] = cmQuery.chrom]
\* what the pairwise index of the chromosome answers for the position asked
Raw ==
    LET table == IF cmQuery.dir = "AtoB" THEN AtoB ELSE BtoA
    IN  CallValue(mappers[table[cmQuery.chrom].mapper], cmQuery.pos,
                  IF cmQuery.dir = "AtoB" THEN 0 ELSE 1)

\* C7: with an integer position, mapAtoB and mapBtoA return the pair (partner name, x):
\* for a raw interval [l, r], x is l when side < 0, r when side > 0 and [l, r]
\* when side = 0; a raw integer or None is returned as it is for every side.
C7_SideSelection ==
    (Answered /\ Known /\ cmQuery.pos.kind = "int") =>
        cmRet = TupleVal(Partner,
                    IF Raw.kind = "list" /\ cmQuery.side < 0 THEN IntVal(Raw.l)
                    ELSE IF Raw.kind = "list" /\ cmQuery.side > 0 THEN IntVal(Raw.r)
                    ELSE Raw)

\* an interval of genome A was asked for with side = -2 and its left end returned
C7_Witness ==
    /\ Answered /\ Known /\ cmQuery.pos.kind = "int"
    /\ cmQuery.dir = "BtoA" /\ cmQuery.side = 0 - 2
    /\ Raw.kind = "list" /\ Raw.l < Raw.r
    /\ cmRet = TupleVal(Partner, IntVal(Raw.l))

\* C8: without a position, mapAtoB and mapBtoA return the partner chromosome name
\* alone and call no pairwise index; for a chromosome name the genome does not
\* have they raise KeyError.
C8_NameOnlyLookup ==
    /\ (Answered /\ Known /\ cmQuery.pos = NoneVal)
          => (cmRet = StrVal(Partner) /\ lookups = <<>>)
    /\ (Answered /\ ~Known) => (cmRet = Raised("KeyError") /\ lookups = <<>>)

\* the name of the second chromosome of genome B was asked for, without position
C8_Witness ==
    /\ Answered /\ cmQuery.pos = NoneVal /\ cmQuery.dir = "BtoA"
    /\ Len(fastaB) = 2 /\ cmQuery.chrom = fastaB[2] /\ fastaA[2] # fastaB[2]
    /\ cmRet = StrVal(fastaA[2]) /\ lookups = <<>>

\* the name a name-only query returns
NameAtoB(c) == MapQuery(AtoB, mappers, 0, c, NoneVal, 0).ret
NameBtoA(c) == MapQuery(BtoA, mappers, 1, c, NoneVal, 0).ret

\* C9: a constructed mapper partners chromosome i of genome A with chromosome i
\* of genome B whatever their names: mapAtoB and mapBtoA return each other's
\* names, mapBtoA(mapAtoB(c)) = c, and the two entries of a pair hold the same
\* pairwise index.
C9_PartnersByOrder ==
    cmPc = "ready" =>
        /\ Len(fastaA) = Len(fastaB)
        /\ \A i \in 1..Len(fastaA) :
              /\ NameAtoB(fastaA[i]) = StrVal(fastaB[i])
              /\ NameBtoA(fastaB[i]) = StrVal(fastaA[i])
              /\ NameBtoA(NameAtoB(fastaA[i]).s) = StrVal(fastaA[i])
              /\ AtoB[fastaA[i]].mapper = BtoA[fastaB[i]].mapper
              /\ mappers[AtoB[fastaA[i]].mapper] = __init__(alignOut[i][1].seq,
                                                             alignOut[i][2].seq).mapArrays

\* two chromosomes whose names are crossed between the genomes, with different
\* alignments
C9_Witness ==
    /\ cmPc = "ready"
    /\ fastaA = << "chr1", "chr2" >> /\ fastaB = << "chr2", "chr1" >>
    /\ mappers[AtoB["chr1"].mapper] # mappers[AtoB["chr2"].mapper]

\* ------------------------------------- properties of the constructor's input
\* the columns both input sequences have
SharedCols == 1..Min(Len(seq0), Len(seq1))
Constructed == pc # "new" /\ pc # "idle"
Rejected == pc = "failed" /\ IsAssertion(exc)

\* C11: construction fails with an assertion error whenever some column holds
\* the gap symbol in both sequences, the first and the last column included.
C11_GapToGapRejected ==
    (Constructed /\ \E c \in SharedCols : seq0[c] = Gap /\ seq1[c] = Gap) => Rejected

\* the last column of an otherwise well-formed alignment is the gap-to-gap one
C11_Witness ==
    /\ pc = "failed" /\ exc = AssertGapToGap
    /\ Len(seq0) = Len(seq1) /\ Len(seq0) >= 3
    /\ seq0[Len(seq0)] = Gap /\ seq1[Len(seq0)] = Gap
    /\ \A c \in 1..(Len(seq0) - 1) : BothReal(c)

\* C12: construction fails with an assertion error whenever a gap column of one
\* sequence is directly followed by a gap column of the other, in either order.
C12_AdjacentGapsRejected ==
    (Constructed /\ \E c \in SharedCols : c + 1 \in SharedCols /\
        ( (seq0[c] = Gap /\ seq1[c + 1] = Gap) \/ (seq1[c] = Gap /\ seq0[c + 1] = Gap) ))
    => Rejected

\* a gap of seq0 directly followed by a gap of seq1, behind an aligned pair
C12_Witness ==
    /\ pc = "failed" /\ exc = AssertAdjacentGaps
    /\ Len(seq0) = Len(seq1) /\ Len(seq0) >= 4
    /\ BothReal(1)
    /\ seq0[2] = Gap /\ seq1[2] # Gap /\ seq0[3] # Gap /\ seq1[3] = Gap

RealBases(s) == Coord(s, Len(s))

\* C13: construction fails with an assertion error, and with no other error,
\* whenever one of the sequences has no real base, two empty sequences included.
C13_NoRealBaseRejected ==
    (Constructed /\ (RealBases(seq0) = 0 \/ RealBases(seq1) = 0)) => Rejected

\* both sequences are empty
C13_Witness ==
    /\ pc = "failed" /\ exc = AssertNoAligned
    /\ seq0 = <<>> /\ seq1 = <<>>

\* the columns whose pair the table is to hold: the first and the last column
\* of two real bases and every such column directly behind a gap column
AnchorCols ==
    { c \in BothRealCols :
        c = FirstPairCol \/ c = LastPairCol \/ (c > 1 /\ ~BothReal(c - 1)) }
\* the members of a set of columns in increasing order
InOrder(S) ==
    [k \in 1..Cardinality(S) |-> CHOOSE c \in S : Cardinality({ d \in S : d < c }) = k - 1]

\* C18: the table holds, in column order and once each, the pairs of the first
\* column of two real bases, of the last one and of every one that is the first
\* behind a gap run, and nothing else.
C18_TableIsAnchorCols ==
    pc = "built" =>
        /\ mapArrays[1] = [k \in 1..Cardinality(AnchorCols) |->
                              Coord(seq0, InOrder(AnchorCols)[k])]
        /\ mapArrays[2] = [k \in 1..Cardinality(AnchorCols) |->
                              Coord(seq1, InOrder(AnchorCols)[k])]

\* two gap runs, the last pair not behind a gap: four entries
C18_Witness ==
    /\ pc = "built" /\ Len(mapArrays[1]) = 4
    /\ BothReal(Len(seq0)) /\ BothReal(Len(seq0) - 1)
    /\ \E c \in 1..Len(seq0) : seq0[c] = Gap
    /\ \E c \in 1..Len(seq0) : seq1[c] = Gap

StrictlyIncreasing(a) == \A i \in 1..(Len(a) - 1) : a[i] < a[i + 1]

\* C19: the two arrays of the table have the same length, not zero, each is
\* strictly increasing and each entry is a coordinate of its sequence.
C19_TableWellFormed ==
    pc = "built" =>
        /\ Len(mapArrays[1]) = Len(mapArrays[2]) /\ Len(mapArrays[1]) # 0
        /\ StrictlyIncreasing(mapArrays[1]) /\ StrictlyIncreasing(mapArrays[2])
        /\ \A k \in 1..Len(mapArrays[1]) :
              /\ 1 <= mapArrays[1][k] /\ mapArrays[1][k] <= RealBases(seq0)
              /\ 1 <= mapArrays[2][k] /\ mapArrays[2][k] <= RealBases(seq1)

\* a table of one entry whose pair is the only one, between gap columns
C19_Witness ==
    /\ pc = "built" /\ Len(mapArrays[1]) = 1
    /\ Len(seq0) >= 3 /\ ~BothReal(1) /\ ~BothReal(Len(seq0))

\* ------------------------------------------------ arguments of other types
\* the argument of the last call as a value of the language
QueryArg == IF "arg" \in DOMAIN query THEN query.arg ELSE IntVal(query.pos)
\* the argument is a number without a fractional part
IsIntegerValue(x) ==
    \/ x.kind = "int"
    \/ x.kind = "float" /\ x.halves % 2 = 0

\* C16: a call whose position is no integer value ends in a TypeError and
\* returns nothing; a call whose position is an integer value does not.
C16_NonIntegerIsTypeError ==
    (pc = "built" /\ query # NoneVal) =>
        IF IsIntegerValue(QueryArg) THEN result # Raised("TypeError")
        ELSE result = Raised("TypeError")

\* --------------------------------------------- duplicate chromosome names
\* two records of a genome have the same name
Dup(g) == \E i \in 1..Len(g), j \in 1..Len(g) : i < j /\ g[i] = g[j]
DuplicateNames == "AssertionError: duplicate sequence names"
Ended == cmPc = "ready" \/ cmPc = "failed"
\* the error of the first aligned pair the pairwise index rejects, or NoExc
FirstInvalid ==
    LET bad == { i \in 1..Len(alignOut) :
                   __init__(alignOut[i][1].seq, alignOut[i][2].seq).exc # NoExc }
    IN  IF bad = {} THEN NoExc
        ELSE __init__(alignOut[SetMin(bad)][1].seq, alignOut[SetMin(bad)][2].seq).exc

\* C14 as stated: with a name repeated in genome A or in genome B construction
\* ends in the duplicate-name error.
C14_AsStated ==
    (Ended /\ (Dup(fastaA) \/ Dup(fastaB))) =>
        (cmPc = "failed" /\ cmExc = DuplicateNames)

\* C14: with a name repeated in genome A or in genome B, at whatever places, no
\* mapper is produced; construction ends in the duplicate-name error when the
\* genomes have the same number of chromosomes, the aligner succeeded on each
\* and every aligned pair is valid, and else in the error of the step that
\* failed first.
C14_DuplicateNamesRejected ==
    (Ended /\ (Dup(fastaA) \/ Dup(fastaB))) =>
        /\ cmPc = "failed"
        /\ AtoB = EmptyDict /\ BtoA = EmptyDict
        /\ cmExc =
             IF Len(fastaA) # Len(fastaB)
             THEN "Exception: input files must all have the same number of sequences"
             ELSE IF Len(alignOut) < Len(fastaA) THEN "AlignerError"
             ELSE IF FirstInvalid # NoExc THEN FirstInvalid
             ELSE DuplicateNames

\* the first and the last of three chromosomes of genome B share a name, the
\* first two of genome A do; every chromosome was aligned and indexed
C14_Witness ==
    /\ cmPc = "failed" /\ cmExc = DuplicateNames
    /\ Len(fastaB) = 3 /\ fastaB[1] = fastaB[3] /\ fastaB[1] # fastaB[2]
    /\ Len(fastaA) = 3 /\ fastaA[1] = fastaA[2] /\ fastaA[1] # fastaA[3]
    /\ Len(alignOut) = 3 /\ FirstInvalid = NoExc

\* ------------------------------------------------ queries leave the state
\* what construction built from the aligned files
Built == _load_alignments(alignOut)
\* the result of a query on the CoordMapper as construction left it
Alone(q) ==
    MapQuery(IF q.dir = "AtoB" THEN Built.AtoB ELSE Built.BtoA, Built.mappers,
             IF q.dir = "AtoB" THEN 0 ELSE 1, q.chrom, q.pos, q.side).ret

\* C15: a query for a name the genome asked does not have, the other genome
\* having it or not, with or without a position, raises KeyError and leaves
\* self.AtoB, self.BtoA and every pairwise index as they were; a later query
\* computes its result from these alone.
C15_UnknownNameFails ==
    [][ (cmPc = "ready" /\ cmQuery' # NoneVal /\
         cmQuery'.chrom \notin Range(IF cmQuery'.dir = "AtoB" THEN fastaA ELSE fastaB))
        => (/\ cmRet' = Raised("KeyError")
            /\ AtoB' = AtoB /\ BtoA' = BtoA /\ mappers' = mappers) ]_vars

\* a name only genome B has was asked of genome A, with a position
C15_Witness ==
    /\ Answered /\ cmQuery.dir = "AtoB" /\ cmQuery.pos = IntVal(1)
    /\ cmQuery.chrom \in Range(fastaB) /\ cmQuery.chrom \notin Range(fastaA)
    /\ cmRet = Raised("KeyError")
    /\ AtoB = Built.AtoB /\ BtoA = Built.BtoA /\ mappers = Built.mappers

\* C17: queries of several threads on one constructed CoordMapper, interleaved
\* in any way: each returns what it returns when it runs alone, and the maps and
\* the pairwise indexes stay as construction left them.
C17_ConcurrentQueriesAsAlone ==
    /\ AtoB = Built.AtoB /\ BtoA = Built.BtoA /\ mappers = Built.mappers
    /\ \A t \in DOMAIN threads :
          threads[t].pc = "done" => threads[t].ret = Alone(threads[t].q)

\* two threads are inside a query on the same chromosome of the same genome,
\* one past the call of the pairwise index, one before it
C17_Witness ==
    /\ threads[1].pc = "select" /\ threads[2].pc = "call"
    /\ threads[1].q.dir = threads[2].q.dir /\ threads[1].q.chrom = threads[2].q.chrom

\* C20: after any sequence of queries, whatever they asked and however they
\* ended, the maps and the arrays of every pairwise index are those
\* construction built, and the last query returned what it returns on these.
C20_QueriesLeaveState ==
    cmPc = "ready" =>
        /\ AtoB = Built.AtoB /\ BtoA = Built.BtoA /\ mappers = Built.mappers
        /\ cmQuery # NoneVal => cmRet = Alone(cmQuery)

\* a query for a position that is no integer failed
C20_Witness ==
    /\ Answered /\ Known /\ cmQuery.pos = FloatVal(3)
    /\ cmRet = Raised("TypeError")
    /\ mappers = Built.mappers

\* ------------------------------------------ the index as a whole, per input
\* the four conditions on an aligned pair
Valid ==
    /\ Len(seq0) = Len(seq1)
    /\ \A c \in 1..Len(seq0) : seq0[c] # Gap \/ seq1[c] # Gap
    /\ \A c \in 1..(Len(seq0) - 1) :
          /\ ~(seq0[c] = Gap /\ seq1[c + 1] = Gap)
          /\ ~(seq1[c] = Gap /\ seq0[c + 1] = Gap)
    /\ RealBases(seq0) > 0 /\ RealBases(seq1) > 0

\* C24: the constructor returns if and only if the two sequences have equal
\* lengths, no column of two gaps, no gap column of one next to a gap column of
\* the other and a real base each; such a pair has a column of two real bases.
C24_BuiltIffValid ==
    Constructed =>
        /\ (pc = "built") <=> Valid
        /\ Valid => BothRealCols # {}

\* an accepted pair with one column of two real bases between a gap of each
\* sequence
C24_Witness ==
    /\ pc = "built" /\ Valid /\ Len(seq0) >= 3
    /\ Cardinality(BothRealCols) = 1
    /\ seq0[1] = Gap /\ seq1[Len(seq1)] = Gap

\* the position asked for is that of the source base in column c
AskedCol(c) == Asked /\ Src(query.which)[c] # Gap /\ query.pos = Coord(Src(query.which), c)

\* C25: asked for the source coordinate of a column of two real bases, the
\* index answers with the target coordinate of that column or with an interval
\* that starts there, and with the integer when no gap of the source follows
\* the column.
C25_PairColumnsMapToEachOther ==
    \A c \in 1..Len(seq0) :
        (AskedCol(c) /\ BothReal(c)) =>
            /\ \/ result = IntVal(Coord(Tgt(query.which), c))
               \/ result.kind = "list" /\ result.l = Coord(Tgt(query.which), c)
            /\ ~(c < Len(seq0) /\ Src(query.which)[c + 1] = Gap)
                  => result = IntVal(Coord(Tgt(query.which), c))

\* a column of two real bases that is no entry of the table and is followed by
\* a gap of the target
C25_Witness ==
    \E c \in 2..(Len(seq0) - 1) :
        /\ AskedCol(c) /\ BothReal(c) /\ BothReal(c - 1) /\ query.which = 1
        /\ c # LastPairCol /\ Tgt(query.which)[c + 1] = Gap
        /\ result = IntVal(Coord(Tgt(query.which), c))

\* the index of the two sequences in the other order
Swapped == __init__(seq1, seq0)

\* C26: the index of (seq1, seq0) holds the two arrays exchanged, and a query
\* in one direction returns what the same query on the index of (seq1, seq0)
\* returns in the other direction.
C26_DirectionsMirror ==
    pc = "built" =>
        /\ Swapped.exc = NoExc
        /\ Swapped.mapArrays = << mapArrays[2], mapArrays[1] >>
        /\ Asked => result = __call__(Swapped.mapArrays, query.pos, 1 - query.which)

\* an interval of the first sequence was returned for a position of the second
C26_Witness ==
    /\ Asked /\ query.which = 1 /\ result.kind = "list"
    /\ mapArrays[1] # mapArrays[2]

\* the smallest and the largest target coordinate of a result
Lo(r) == IF r.kind = "list" THEN r.l ELSE r.v
Hi(r) == IF r.kind = "list" THEN r.r ELSE r.v
InTable == FromArray[1] <= query.pos /\ query.pos <= Last(FromArray)

\* C27: for source positions p < q between the first and the last entry, the
\* largest target coordinate of the result for p is at most the smallest of the
\* result for q.
C27_Monotone ==
    (Asked /\ InTable) =>
        \A q \in Positions :
            (query.pos < q /\ q <= Last(FromArray)) =>
                Hi(result) <= Lo(__call__(mapArrays, q, query.which))

\* an interval was returned and the next position maps directly behind it
C27_Witness ==
    /\ Asked /\ InTable /\ result.kind = "list"
    /\ query.pos < Last(FromArray)
    /\ __call__(mapArrays, query.pos + 1, query.which) = IntVal(result.r + 1)

\* the result r holds the target coordinate t
Covers(r, t) == r # NoneVal /\ Lo(r) <= t /\ t <= Hi(r)

\* C28: every target coordinate from the first to the last entry is the result
\* of some source position or lies in its interval; an interval [l, r] has
\* l < r and lies between the first and the last entry of the target.
C28_TargetCovered ==
    /\ pc = "built" =>
          \A w \in {0, 1} :
              \A t \in mapArrays[(1 - w) + 1][1]..Last(mapArrays[(1 - w) + 1]) :
                  \E p \in Positions : Covers(__call__(mapArrays, p, w), t)
    /\ (Asked /\ result.kind = "list") =>
          /\ result.l < result.r
          /\ ToArray[1] <= result.l /\ result.r <= Last(ToArray)

\* an interval of three target bases, the middle one the result of no other
\* position
C28_Witness ==
    /\ Asked /\ result.kind = "list" /\ result.r = result.l + 2
    /\ \A p \in Positions :
          Covers(__call__(mapArrays, p, query.which), result.l + 1) => p = query.pos

\* the position asked for takes the branch of the binary search
Searched == FromArray[1] <= query.pos /\ query.pos < Last(FromArray)

\* C29: in the branch of the binary search the insertion index lies from 1 to
\* the table length less one, both reads are inside the table, the assertion
\* prevFromPos <= fromPos < nextFromPos holds; with one entry the branch is
\* never taken.
C29_SearchInBounds ==
    Asked =>
        /\ Searched =>
              LET insertInd == bisect(FromArray, query.pos)
              IN  /\ 1 <= insertInd /\ insertInd < Len(FromArray)
                  /\ InRange(FromArray, insertInd - 1) /\ InRange(FromArray, insertInd)
                  /\ Item(FromArray, insertInd - 1) <= query.pos
                  /\ query.pos < Item(FromArray, insertInd)
                  /\ result.kind \in {"int", "list"}
        /\ Len(FromArray) = 1 => ~Searched

\* the position of an inner entry of a table of three entries or more
C29_Witness ==
    /\ Asked /\ Searched /\ Len(FromArray) >= 3
    /\ query.pos = FromArray[2] /\ bisect(FromArray, query.pos) = 2

\* the column of entry k of the table
AnchorCol(k) == ColOf(seq0, mapArrays[1][k])
\* the columns with a gap between the columns x and y
GapColsBetween(x, y) == { c \in (x + 1)..(y - 1) : ~BothReal(c) }
\* the number of gap runs of the alignment
GapRuns ==
    Cardinality({ c \in 1..Len(seq0) : ~BothReal(c) /\ (c = 1 \/ BothReal(c - 1)) })

\* C30: between two consecutive entries of the table the columns with a gap, if
\* any, are one run that ends directly before the later entry and lies in one
\* sequence; the columns before it hold two real bases; the table has at most
\* as many entries as the alignment has gap runs, plus 2.
C30_OneGapRunBetweenAnchors ==
    pc = "built" =>
        /\ \A k \in 1..(Len(mapArrays[1]) - 1) :
              LET x == AnchorCol(k)
                  y == AnchorCol(k + 1)
                  G == GapColsBetween(x, y)
              IN  G # {} =>
                    /\ G = SetMin(G)..(y - 1)
                    /\ (\A c \in G : seq0[c] = Gap) \/ (\A c \in G : seq1[c] = Gap)
                    /\ \A c \in x..(SetMin(G) - 1) : BothReal(c)
        /\ Len(mapArrays[1]) <= GapRuns + 2

\* two gap runs, one in each sequence, and four entries
C30_Witness ==
    /\ pc = "built" /\ GapRuns = 2 /\ Len(mapArrays[1]) = 4
    /\ GapColsBetween(AnchorCol(1), AnchorCol(2)) # {}
    /\ GapColsBetween(AnchorCol(3), AnchorCol(4)) = {}
    /\ \E c \in 1..Len(seq0) : seq0[c] = Gap
    /\ \E c \in 1..Len(seq0) : seq1[c] = Gap

\* --------------------------------------------- the steps of construction
NoMapper == cmPc # "ready" /\ AtoB = EmptyDict /\ BtoA = EmptyDict /\ mappers = <<>>
\* the aligned files written are those of the first chromosomes, in order
AlignedInOrder ==
    /\ Len(alignOut) <= Len(perChr)
    /\ \A i \in 1..Len(alignOut) :
          << alignOut[i][1].id, alignOut[i][2].id >> = perChr[i]

\* C21: the aligner runs on one chromosome after the other, each once; when it
\* raises, construction ends at once with that error: no further chromosome is
\* aligned, no pairwise index is built, no mapper is produced, and nothing is
\* tried again.
C21_AlignOncePerChromosome ==
    /\ [](/\ AlignedInOrder
          /\ cmPc \in {"load", "ready"} => Len(alignOut) = Len(perChr)
          /\ cmExc = "AlignerError" =>
                (cmPc = "failed" /\ NoMapper /\ Len(alignOut) < Len(perChr)))
    /\ [][ /\ alignOut' # alignOut =>
                (/\ cmPc = "align"
                 /\ Len(alignOut') = Len(alignOut) + 1
                 /\ \A i \in 1..Len(alignOut) : alignOut'[i] = alignOut[i])
           /\ cmPc = "failed" => (cmPc' = "failed" /\ alignOut' = alignOut
                                  /\ cmExc' = cmExc /\ mappers' = mappers) ]_vars

\* the aligner raised on the second of three chromosomes
C21_Witness ==
    /\ cmPc = "failed" /\ cmExc = "AlignerError"
    /\ Len(perChr) = 3 /\ Len(alignOut) = 1
    /\ NoMapper

C23_EmptyOrUnequalRejected ==
    (cmPc # "new" /\ (Len(fastaA) # Len(fastaB) \/ (Len(fastaA) = 0 /\ Len(fastaB) = 0))) =>
        /\ cmPc = "failed"
        /\ cmExc = IF Len(fastaA) # Len(fastaB)
                   THEN "Exception: input files must all have the same number of sequences"
                   ELSE "Exception: no input sequences"
        /\ alignOut = <<>> /\ NoMapper

\* two genomes without a chromosome
C23_Witness ==
    /\ cmPc = "failed" /\ cmExc = "Exception: no input sequences"
    /\ fastaA = <<>> /\ fastaB = <<>>
====
